---- MODULE Spec2Model ----
(***************************************************************************)
(* A model of backend/core/docLoader: DocConvertor (doc_convertor.py) and  *)
(* MarkdownFormatter (doc_formatter.py).                                   *)
(*                                                                         *)
(* Text is modelled as a sequence of one-character strings, so that the    *)
(* regular expression of __extract_images, str.replace, str.startswith,    *)
(* str.lower and Path.suffix are computed character by character.          *)
(***************************************************************************)
EXTENDS Integers, Sequences, FiniteSets, TLC

VARIABLES
    \* ---- MarkdownFormatter.process_markdown_images ----
    pc,             \* position of the call: "idle", "loop", "done"
    input,          \* the markdown_text argument as passed in
    markdown_text,  \* the working string (local variable, reassigned in the loop)
    images,         \* list of (original, img_path, title) from __extract_images
    captions,       \* list returned by __get_captions
    idx,            \* 1-based position of the for loop in zip(images, captions)
    loaderCalls,    \* batches handed to ImageCaptionLoader(...).load() during the call
    spans,          \* history: where each extracted occurrence now lies in markdown_text
    nrepl,          \* history: number of substitutions made by the last str.replace
    \* ---- DocConvertor ----
    folder,         \* files under self.image_folder: path -> bytes
    saveLog,        \* history: every _save_image call so far, as [path, data]
    ret             \* the last DocConvertor call and its outcome

fvars == <<pc, input, markdown_text, images, captions, idx, loaderCalls, spans, nrepl>>
cvars == <<folder, saveLog, ret>>
vars == <<pc, input, markdown_text, images, captions, idx, loaderCalls, spans, nrepl,
          folder, saveLog, ret>>

(***************************************************************************)
(* Bounds.                                                                 *)
(***************************************************************************)
MaxFrags == 3
MaxImgs == 1
MaxParas == 2
MaxRows == 2
MaxCols == 2
MaxElems == 3

(***************************************************************************)
(* Generic string helpers (Python str semantics).                          *)
(***************************************************************************)
Min(a, b) == IF a <= b THEN a ELSE b

\* s[i:].startswith(pat), 1-based i
StartsWithAt(s, i, pat) ==
    /\ i >= 1
    /\ i + Len(pat) - 1 <= Len(s)
    /\ \A k \in 1..Len(pat) : s[i + k - 1] = pat[k]

\* str.startswith
startswith(s, pat) == StartsWithAt(s, 1, pat)

\* s[i-1:] in Python terms: the suffix beginning at 1-based index i
Tail_from(s, i) == SubSeq(s, i, Len(s))

\* str.find(pat, from): smallest 1-based index >= from where pat occurs, 0 if none
RECURSIVE find(_, _, _)
find(s, pat, from) ==
    IF from + Len(pat) - 1 > Len(s) THEN 0
    ELSE IF StartsWithAt(s, from, pat) THEN from
    ELSE find(s, pat, from + 1)

\* start positions of the non-overlapping occurrences str.replace / str.count visit
RECURSIVE Hits(_, _, _)
Hits(s, pat, from) ==
    LET h == find(s, pat, from)
    IN  IF h = 0 THEN <<>> ELSE <<h>> \o Hits(s, pat, h + Len(pat))

\* str.replace(old, new, 1): only the first occurrence
ReplaceFirst(s, old, new) ==
    LET h == find(s, old, 1)
    IN  IF h = 0 THEN s
        ELSE SubSeq(s, 1, h - 1) \o new \o SubSeq(s, h + Len(old), Len(s))

\* str.replace(old, new) for non-empty old: every non-overlapping occurrence, left to right
RECURSIVE replace(_, _, _)
replace(s, old, new) ==
    LET h == find(s, old, 1)
    IN  IF h = 0 THEN s
        ELSE SubSeq(s, 1, h - 1) \o new \o replace(SubSeq(s, h + Len(old), Len(s)), old, new)

(***************************************************************************)
(* The environment: hashlib.md5 and the files on disk.                     *)
(***************************************************************************)
HexDigit == <<"0","1","2","3","4","5","6","7","8","9","a","b","c","d","e","f">>

\* The running state of the digest over the bytes, folded left to right.
\* hashlib.md5 is a deterministic function of the bytes alone; it is modelled
\* by an 8-bit digest, so collisions between different byte strings do exist.
RECURSIVE DigestState(_)
DigestState(bytes) ==
    IF bytes = <<>> THEN 7
    ELSE (DigestState(SubSeq(bytes, 1, Len(bytes) - 1)) * 31 + bytes[Len(bytes)]) % 256

\* hashlib.md5(data).hexdigest(): lower-case hexadecimal text
md5_hexdigest(bytes) ==
    LET h == DigestState(bytes)
    IN  <<HexDigit[(h \div 16) + 1], HexDigit[(h % 16) + 1]>>

\* Image payloads that occur in documents and files.
BytesA == <<137, 80>>
BytesB == <<255, 216>>
BytesC == <<71, 73, 70>>
\* BytesD differs from BytesA and has the same digest
BytesD == <<138, 49>>

\* Files outside the image folder, by path (relative to the working directory):
\* the local pictures a Markdown text or an HTML page may refer to.
Disk ==
    (<<"e">> :> BytesA) @@ (<<"f">> :> BytesB) @@
    (<<"h","t","t","p","x">> :> BytesC)

\* os.path.exists(path)
exists(path) == path \in DOMAIN Disk

\* open(path, 'rb').read()
read_bytes(path) == Disk[path]

\* MarkdownFormatter.__calculate_md5
calculate_md5(file_path) == md5_hexdigest(read_bytes(file_path))

(***************************************************************************)
(* __extract_images: re.finditer over                                      *)
(*     !\[(.*?)\]\((.*?)(?:\s+"(.*?)")?\)                                  *)
(* A failed match is the record NoMatch; a match records the 1-based       *)
(* positions of its first and last character.                              *)
(***************************************************************************)
NoMatch == [ok |-> FALSE]

\* regex \s
IsSpace(c) == c \in {" ", "\t", "\n"}

\* regex . (no DOTALL): anything but a line break
IsDot(c) == c /= "\n"

\* first index >= j that holds no whitespace (Len(t)+1 if none): the greedy \s+
RECURSIVE SkipSpace(_, _)
SkipSpace(t, j) ==
    IF j <= Len(t) /\ IsSpace(t[j]) THEN SkipSpace(t, j + 1) ELSE j

\* the lazy (.*?) of the title followed by "\) : the nearest q >= from with
\* t[q] = '"' and t[q+1] = ')', reached over non-line-break characters; 0 if none
RECURSIVE TitleClose(_, _)
TitleClose(t, q) ==
    IF q + 1 > Len(t) THEN 0
    ELSE IF t[q] = "\"" /\ t[q + 1] = ")" THEN q
    ELSE IF IsDot(t[q]) THEN TitleClose(t, q + 1)
    ELSE 0

\* (?:\s+"(.*?)")\) tried at position j: the whitespace run must be followed by '"'
TitleGroup(t, j) ==
    LET k == SkipSpace(t, j)
    IN  IF k = j \/ k > Len(t) \/ t[k] /= "\"" THEN NoMatch
        ELSE LET q == TitleClose(t, k + 1)
             IN  IF q = 0 THEN NoMatch
                 ELSE [ok |-> TRUE, title |-> SubSeq(t, k + 1, q - 1), last |-> q + 1]

\* the lazy (.*?) of the path from p, then the optional title group, then \)
RECURSIVE PathFrom(_, _, _)
PathFrom(t, p, j) ==
    IF j > Len(t) THEN NoMatch
    ELSE LET g == TitleGroup(t, j)
         IN  IF g.ok
                 THEN [ok |-> TRUE, path |-> SubSeq(t, p, j - 1), title |-> g.title,
                       last |-> g.last]
             ELSE IF t[j] = ")"
                 THEN [ok |-> TRUE, path |-> SubSeq(t, p, j - 1), title |-> <<>>,
                       last |-> j]
             ELSE IF IsDot(t[j]) THEN PathFrom(t, p, j + 1)
             ELSE NoMatch

\* the lazy (.*?) of the alt text from a, then \]\( and the rest
RECURSIVE AltFrom(_, _)
AltFrom(t, i) ==
    IF i + 1 > Len(t) THEN NoMatch
    ELSE LET r == IF t[i] = "]" /\ t[i + 1] = "(" THEN PathFrom(t, i + 2, i + 2)
                  ELSE NoMatch
         IN  IF r.ok THEN r
             ELSE IF IsDot(t[i]) THEN AltFrom(t, i + 1)
             ELSE NoMatch

\* the pattern anchored at position s
MatchAt(t, s) ==
    IF StartsWithAt(t, s, <<"!", "[">>)
    THEN LET r == AltFrom(t, s + 2)
         IN  IF r.ok
             THEN [ok |-> TRUE, first |-> s, last |-> r.last,
                   original |-> SubSeq(t, s, r.last),     \* match.group(0)
                   img_path |-> r.path,                   \* match.group(2)
                   title    |-> r.title]                  \* match.group(3) or ''
             ELSE NoMatch
    ELSE NoMatch

\* re.finditer: leftmost matches, each search resuming after the previous match
RECURSIVE finditer(_, _)
finditer(t, s) ==
    IF s > Len(t) THEN <<>>
    ELSE LET m == MatchAt(t, s)
         IN  IF m.ok THEN <<m>> \o finditer(t, m.last + 1)
             ELSE finditer(t, s + 1)

\* MarkdownFormatter.__extract_images
extract_images(text) == finditer(text, 1)

(***************************************************************************)
(* MarkdownFormatter                                                       *)
(***************************************************************************)
\* Pieces the Markdown argument is put together from.
FragE    == <<"!","[","a","]","(","e",")">>                      \* ![a](e)      e exists
FragF    == <<"!","[","b","]","(","f"," ","\"","t","\"",")">>    \* ![b](f "t")  f exists
FragM    == <<"!","[","x","]","(","m",")">>                      \* ![x](m)      m is missing
FragOpen == <<"!","[","x","]","(","m"," ">>                      \* ![x](m_      left open
FragUrl  == <<"!","[","u","]","(","h","t","t","p",":","/","/","h","/","u",")">>
FragText == <<"t","x","\n">>
Fragments == {FragE, FragF, FragM, FragOpen, FragUrl, FragText}

RECURSIVE Join(_, _)
Join(fs, n) == IF n = 0 THEN <<>> ELSE Join(fs, n - 1) \o fs[n]

\* every concatenation of at most MaxFrags pieces
Markdowns == UNION { { Join(fs, n) : fs \in [1..n -> Fragments] } : n \in 0..MaxFrags }

\* page_content values the captioning collaborator may produce; <<>> is no caption
CaptionTexts == { <<>>, <<"c">>, <<"d">> }

\* ImageCaptionLoader(images=img_files).load(): one document per path, in order;
\* each caption is the collaborator's own choice
LoaderResults(img_files) == [1..Len(img_files) -> CaptionTexts]

\* a variant of lines 44-48 that lists each existing path once
RECURSIVE img_files_unique(_)
img_files_unique(imgs) ==
    IF imgs = <<>> THEN <<>>
    ELSE LET rest == img_files_unique(Tail(imgs))
             p == Head(imgs).img_path
         IN  IF exists(p) /\ ~(\E k \in 1..Len(rest) : rest[k] = p)
             THEN <<p>> \o rest ELSE rest

\* __get_captions, lines 44-48: the paths of the images whose file exists
RECURSIVE img_files_of(_)
img_files_of(imgs) ==
    IF imgs = <<>> THEN <<>>
    ELSE LET rest == img_files_of(Tail(imgs))
         IN  IF exists(Head(imgs).img_path) THEN <<Head(imgs).img_path>> \o rest ELSE rest

\* lines 84-87: the replacement text of one image
new_text_of(img_path, caption) ==
    IF caption /= <<>>
    THEN <<"!","[">> \o calculate_md5(img_path) \o <<"]","(">> \o img_path
             \o <<" ","\"">> \o caption \o <<"\"",")">>
    ELSE <<"!","[">> \o calculate_md5(img_path) \o <<"]","(">> \o img_path \o <<")">>

\* number of loop iterations: zip(images, captions) stops at the shorter list
ZipLen == Min(Len(images), Len(captions))

\* History: how one str.replace moves the place of an extracted occurrence.
\* hs are the positions replaced (old text of length lo, new text of length ln).
\* An occurrence replaced exactly now spans the new text; any other is shifted
\* by the replacements before it and stretched by those inside it.
MoveSpan(sp, hs, lo, ln) ==
    LET before == Cardinality({n \in 1..Len(hs) : hs[n] < sp.first})
        exact  == \E n \in 1..Len(hs) : hs[n] = sp.first /\ hs[n] + lo - 1 = sp.last
        inside == Cardinality({n \in 1..Len(hs) : hs[n] >= sp.first /\ hs[n] <= sp.last})
    IN  IF exact
        THEN [first |-> sp.first + before * (ln - lo),
              last  |-> sp.first + before * (ln - lo) + ln - 1]
        ELSE [first |-> sp.first + before * (ln - lo),
              last  |-> sp.last + (before + inside) * (ln - lo)]

\* lines 70-73: extract the images, ask for the captions (one loader call)
ProcessCall(md) ==
    /\ LET ms == extract_images(md)
           imgs == [i \in 1..Len(ms) |->
                      [original |-> ms[i].original, img_path |-> ms[i].img_path,
                       title |-> ms[i].title]]
           img_files == img_files_of(imgs)
       IN  /\ input' = md
           /\ markdown_text' = md
           /\ images' = imgs
           /\ loaderCalls' = Append(loaderCalls, img_files)
           /\ captions' \in LoaderResults(img_files)
           /\ spans' = [i \in 1..Len(ms) |->
                          [first |-> ms[i].first, last |-> ms[i].last]]
    /\ idx' = 1
    /\ nrepl' = 0
    /\ pc' = "loop"
    /\ UNCHANGED cvars

\* lines 76-78: the image's file does not exist, continue
LoopSkip ==
    /\ pc = "loop"
    /\ idx <= ZipLen
    /\ ~exists(images[idx].img_path)
    /\ idx' = idx + 1
    /\ nrepl' = 0
    /\ UNCHANGED <<pc, input, markdown_text, images, captions, loaderCalls, spans>>
    /\ UNCHANGED cvars

\* lines 76-90: the image's file exists, replace its original text
LoopReplace ==
    /\ pc = "loop"
    /\ idx <= ZipLen
    /\ exists(images[idx].img_path)
    /\ LET original == images[idx].original
           new_text == new_text_of(images[idx].img_path, captions[idx])
           hs == Hits(markdown_text, original, 1)
       IN  /\ markdown_text' = replace(markdown_text, original, new_text)
           /\ spans' = [i \in 1..Len(spans) |->
                          MoveSpan(spans[i], hs, Len(original), Len(new_text))]
           /\ nrepl' = Len(hs)
    /\ idx' = idx + 1
    /\ UNCHANGED <<pc, input, images, captions, loaderCalls>>
    /\ UNCHANGED cvars

\* line 92: return markdown_text
ProcessReturn ==
    /\ pc = "loop"
    /\ idx > ZipLen
    /\ pc' = "done"
    /\ UNCHANGED <<input, markdown_text, images, captions, idx, loaderCalls, spans, nrepl>>
    /\ UNCHANGED cvars

process_markdown_images ==
    \/ pc = "idle" /\ \E md \in Markdowns : ProcessCall(md)
    \/ LoopSkip
    \/ LoopReplace
    \/ ProcessReturn

(***************************************************************************)
(* DocConvertor: helpers standing for the Python built-ins it uses.        *)
(***************************************************************************)
UpperCase == <<"A","B","C","D","E","F","G","H","I","J","K","L","M",
               "N","O","P","Q","R","S","T","U","V","W","X","Y","Z">>
LowerCase == <<"a","b","c","d","e","f","g","h","i","j","k","l","m",
               "n","o","p","q","r","s","t","u","v","w","x","y","z">>
Digits == <<"0","1","2","3","4","5","6","7","8","9">>

\* str.lower on one character
lower_char(c) ==
    IF \E k \in 1..Len(UpperCase) : UpperCase[k] = c
    THEN LowerCase[CHOOSE k \in 1..Len(UpperCase) : UpperCase[k] = c]
    ELSE c

\* str.lower
lower(s) == [k \in 1..Len(s) |-> lower_char(s[k])]

\* str.rfind of one character: the last 1-based index holding c, 0 if none
RECURSIVE rfind_char(_, _, _)
rfind_char(s, c, k) ==
    IF k = 0 THEN 0 ELSE IF s[k] = c THEN k ELSE rfind_char(s, c, k - 1)

\* PurePath.name: the final path component
path_name(file_path) ==
    SubSeq(file_path, rfind_char(file_path, "/", Len(file_path)) + 1, Len(file_path))

\* PurePath.suffix: from the last dot of the name, unless the name starts or
\* ends with that dot
path_suffix(file_path) ==
    LET name == path_name(file_path)
        i == rfind_char(name, ".", Len(name))
    IN  IF 1 < i /\ i < Len(name) THEN SubSeq(name, i, Len(name)) ELSE <<>>

\* os.path.dirname
dirname(file_path) ==
    LET i == rfind_char(file_path, "/", Len(file_path))
    IN  IF i = 0 THEN <<>> ELSE SubSeq(file_path, 1, i - 1)

\* os.path.join of two relative parts
path_join(a, b) ==
    IF a = <<>> THEN b
    ELSE IF a[Len(a)] = "/" THEN a \o b
    ELSE a \o <<"/">> \o b

\* '#' * n
RECURSIVE Hashes(_)
Hashes(n) == IF n <= 0 THEN <<>> ELSE <<"#">> \o Hashes(n - 1)

\* str(n) for an int n >= 0
RECURSIVE DecStr(_)
DecStr(n) == IF n < 10 THEN <<Digits[n + 1]>> ELSE DecStr(n \div 10) \o <<Digits[(n % 10) + 1]>>

\* '\n'.join(markdown)
RECURSIVE JoinLines(_)
JoinLines(md) ==
    IF md = <<>> THEN <<>>
    ELSE IF Len(md) = 1 THEN md[1]
    ELSE md[1] \o <<"\n">> \o JoinLines(Tail(md))

\* concatenation of a sequence of sequences
RECURSIVE Flatten(_)
Flatten(ss) == IF ss = <<>> THEN <<>> ELSE Head(ss) \o Flatten(Tail(ss))

(***************************************************************************)
(* DocConvertor._save_image                                                *)
(***************************************************************************)
\* self.image_folder, the constructor's default 'images'
image_folder == <<"i","m","a","g","e","s">>

\* the default of the extension parameter
DefaultExtension == <<".","p","n","g">>

\* a variant of line 47 that forgets the digest in the file name
fixed_image_path(image_data, extension) ==
    path_join(image_folder, <<"i","m","g">> \o extension)

\* lines 46-47: os.path.join(self.image_folder, f'{image_hash}{extension}')
image_path_of(image_data, extension) ==
    path_join(image_folder, md5_hexdigest(image_data) \o extension)

\* lines 49-50: open(image_path, 'wb').write(image_data) on the folder's files
write_file(files, path, data) ==
    [q \in (DOMAIN files) \cup {path} |-> IF q = path THEN data ELSE files[q]]

\* the files after a sequence of _save_image calls, given as <<path, data>> pairs
RECURSIVE apply_writes(_, _)
apply_writes(files, ws) ==
    IF ws = <<>> THEN files
    ELSE apply_writes(write_file(files, ws[1].path, ws[1].data), Tail(ws))

\* one _save_image call as the routines make it: the write and the returned path
save_image(image_data) ==
    [path |-> image_path_of(image_data, DefaultExtension), data |-> image_data]

\* f"![image]({image_path})\n"
image_ref(image_path) ==
    <<"!","[","i","m","a","g","e","]","(">> \o image_path \o <<")","\n">>

\* What a routine did: its markdown list, the _save_image calls it made, and
\* the exception it raised, if any.
Ok(markdown, writes) ==
    [kind |-> "ok", exc |-> <<>>, markdown |-> markdown, writes |-> writes]
Raised(exc, writes) ==
    [kind |-> "error", exc |-> exc, markdown |-> <<>>, writes |-> writes]

(***************************************************************************)
(* DocConvertor.convert_docx                                               *)
(* A document is [paragraphs: seq of [style, text], rels: seq of           *)
(* [target_ref, blob]].                                                    *)
(***************************************************************************)
Heading == <<"H","e","a","d","i","n","g">>

IsDigit(c) == \E k \in 1..Len(Digits) : Digits[k] = c

\* int(c) for a one-character string that is a digit
int_of(c) == (CHOOSE k \in 1..Len(Digits) : Digits[k] = c) - 1

\* lines 67-71: the entry appended for one paragraph (defined when int() succeeds)
docx_paragraph(para) ==
    IF startswith(para.style, Heading)
    THEN Hashes(int_of(para.style[Len(para.style)])) \o <<" ">> \o para.text \o <<"\n">>
    ELSE para.text \o <<"\n">>

\* line 69: int(level) raises ValueError when the last character is no digit
docx_paragraph_raises(para) ==
    startswith(para.style, Heading) /\ ~IsDigit(para.style[Len(para.style)])

\* lines 74-78: the relationships whose target_ref contains "image"
RECURSIVE docx_image_blobs(_)
docx_image_blobs(rels) ==
    IF rels = <<>> THEN <<>>
    ELSE IF find(Head(rels).target_ref, <<"i","m","a","g","e">>, 1) /= 0
         THEN <<Head(rels).blob>> \o docx_image_blobs(Tail(rels))
         ELSE docx_image_blobs(Tail(rels))

convert_docx(doc) ==
    IF \E i \in 1..Len(doc.paragraphs) : docx_paragraph_raises(doc.paragraphs[i])
    THEN Raised(<<"ValueError">>, <<>>)
    ELSE LET blobs == docx_image_blobs(doc.rels)
             ws == [i \in 1..Len(blobs) |-> save_image(blobs[i])]
         IN  Ok([i \in 1..Len(doc.paragraphs) |-> docx_paragraph(doc.paragraphs[i])]
                    \o [i \in 1..Len(ws) |-> image_ref(ws[i].path)],
                ws)

(***************************************************************************)
(* DocConvertor.convert_xlsx                                               *)
(* A workbook is a sequence of sheets [title, rows]; rows is the used      *)
(* range, max_row rows of max_column cell values each.                     *)
(***************************************************************************)
\* cell values as openpyxl yields them
PyNone      == [t |-> "none", n |-> 0, s |-> <<>>]
PyInt(k)    == [t |-> "int",  n |-> k, s |-> <<>>]
PyStr(x)    == [t |-> "str",  n |-> 0, s |-> x]

\* truth value of a Python object
truthy(v) ==
    CASE v.t = "none" -> FALSE
      [] v.t = "int"  -> v.n /= 0
      [] v.t = "str"  -> v.s /= <<>>

\* str(v), as an f-string formats it
str_of(v) ==
    CASE v.t = "none" -> <<"N","o","n","e">>
      [] v.t = "int"  -> DecStr(v.n)
      [] v.t = "str"  -> v.s

\* lines 105 and 116: value or ''
value_or_empty(v) == IF truthy(v) THEN v ELSE PyStr(<<>>)

\* lines 102-106 and 114-118: '|' followed by " {cell_value} |" per column
xlsx_row(cells) ==
    <<"|">> \o Flatten([c \in 1..Len(cells) |->
                          <<" ">> \o str_of(value_or_empty(cells[c])) \o <<" ","|">>])

\* lines 103-107: '|' followed by " --- |" per column
xlsx_separator(max_col) ==
    <<"|">> \o Flatten([c \in 1..max_col |-> <<" ","-","-","-"," ","|">>])

\* lines 95-119: the entries appended for one sheet
xlsx_sheet(sheet) ==
    LET max_row == Len(sheet.rows)
        max_col == Len(sheet.rows[1])
    IN  << <<"#","#"," ">> \o sheet.title \o <<"\n">> >>
        \o << xlsx_row(sheet.rows[1]) >>
        \o << xlsx_separator(max_col) >>
        \o [r \in 1..(max_row - 1) |-> xlsx_row(sheet.rows[r + 1])]
        \o << <<"\n">> >>

convert_xlsx(wb) ==
    Ok(Flatten([k \in 1..Len(wb) |-> xlsx_sheet(wb[k])]), <<>>)

(***************************************************************************)
(* DocConvertor.convert_pptx                                               *)
(* A presentation is a sequence of slides, a slide a sequence of shapes    *)
(* [has_text, text, shape_type, blob].                                     *)
(***************************************************************************)
\* lines 138-145: the entries and the save of one shape
pptx_shape_entries(shape) ==
    (IF shape.has_text THEN << shape.text \o <<"\n">> >> ELSE <<>>)
    \o (IF shape.shape_type = 13 THEN << image_ref(save_image(shape.blob).path) >> ELSE <<>>)

pptx_shape_writes(shape) ==
    IF shape.shape_type = 13 THEN << save_image(shape.blob) >> ELSE <<>>

convert_pptx(prs) ==
    LET shapes == Flatten(prs)
    IN  Ok(Flatten([k \in 1..Len(shapes) |-> pptx_shape_entries(shapes[k])]),
           Flatten([k \in 1..Len(shapes) |-> pptx_shape_writes(shapes[k])]))

(***************************************************************************)
(* DocConvertor.convert_pdf                                                *)
(* A PDF is a sequence of pages [text, images: seq of image bytes].        *)
(***************************************************************************)
\* lines 163-172: the entries of one page
pdf_page_entries(page) ==
    << page.text \o <<"\n">> >>
    \o [k \in 1..Len(page.images) |-> image_ref(save_image(page.images[k]).path)]

pdf_page_writes(page) == [k \in 1..Len(page.images) |-> save_image(page.images[k])]

convert_pdf(doc) ==
    Ok(Flatten([k \in 1..Len(doc) |-> pdf_page_entries(doc[k])]),
       Flatten([k \in 1..Len(doc) |-> pdf_page_writes(doc[k])]))

(***************************************************************************)
(* DocConvertor.convert_html                                               *)
(* A parsed page is the sequence of its elements in document order, each   *)
(* [tag, text, src]; src = <<>> stands for a missing or empty attribute.   *)
(***************************************************************************)
HeadingTags == <<"h1", "h2", "h3", "h4", "h5", "h6">>
Http  == <<"h","t","t","p">>
Https == <<"h","t","t","p","s">>

\* soup.find_all(tag): the elements with that tag, in document order
find_all(soup, tag) == SelectSeq(soup, LAMBDA el : el.tag = tag)

\* lines 191-193: all h1, then all h2, ... then all h6
html_headings(soup) ==
    Flatten([i \in 1..6 |->
        LET hs == find_all(soup, HeadingTags[i])
        IN  [k \in 1..Len(hs) |-> Hashes(i) \o <<" ">> \o hs[k].text \o <<"\n">>]])

\* lines 196-197
html_paragraphs(soup) ==
    LET ps == find_all(soup, "p")
    IN  [k \in 1..Len(ps) |-> ps[k].text \o <<"\n">>]

\* line 202: src and (src.startswith('http') or src.startswith('https'))
html_is_remote(src) == src /= <<>> /\ (startswith(src, Http) \/ startswith(src, Https))

\* lines 205-208: the local file an img refers to, <<>> when there is none to read
html_local_path(file_path, src) ==
    LET img_path == path_join(dirname(file_path), src)
    IN  IF exists(img_path) THEN img_path ELSE <<>>

\* lines 200-212: the entries and the save of one img element
html_img_entries(file_path, img) ==
    IF html_is_remote(img.src) THEN << image_ref(img.src) >>
    ELSE IF img.src /= <<>> /\ html_local_path(file_path, img.src) /= <<>>
    THEN << image_ref(save_image(read_bytes(html_local_path(file_path, img.src))).path) >>
    ELSE <<>>

html_img_writes(file_path, img) ==
    IF html_is_remote(img.src) THEN <<>>
    ELSE IF img.src /= <<>> /\ html_local_path(file_path, img.src) /= <<>>
    THEN << save_image(read_bytes(html_local_path(file_path, img.src))) >>
    ELSE <<>>

convert_html(file_path, soup) ==
    LET imgs == find_all(soup, "img")
    IN  Ok(html_headings(soup) \o html_paragraphs(soup)
               \o Flatten([k \in 1..Len(imgs) |-> html_img_entries(file_path, imgs[k])]),
           Flatten([k \in 1..Len(imgs) |-> html_img_writes(file_path, imgs[k])]))

\* the extensions DocConvertor.convert knows
ExtDocx == <<".","d","o","c","x">>
ExtXlsx == <<".","x","l","s","x">>
ExtPptx == <<".","p","p","t","x">>
ExtPdf  == <<".","p","d","f">>
ExtHtml == <<".","h","t","m","l">>
ExtHtm  == <<".","h","t","m">>

\* lines 227-234: the dispatch table
converters ==
    (ExtDocx :> "convert_docx") @@ (ExtXlsx :> "convert_xlsx") @@
    (ExtPptx :> "convert_pptx") @@ (ExtPdf :> "convert_pdf") @@
    (ExtHtml :> "convert_html") @@ (ExtHtm :> "convert_html")

(***************************************************************************)
(* The documents and paths the calls are made with.                        *)
(***************************************************************************)
\* every sequence over S of length at most n
SeqsUpTo(S, n) == UNION { [1..k -> S] : k \in 0..n }

\* image payloads embedded in documents
Payloads == {BytesA, BytesB, BytesD}

StylesRel == [target_ref |-> <<"s","t","y","l","e","s",".","x","m","l">>, blob |-> <<>>]
ImageRel(blob) ==
    [target_ref |-> <<"m","e","d","i","a","/","i","m","a","g","e","1",".","p","n","g">>,
     blob |-> blob]

StyleNormal   == <<"N","o","r","m","a","l">>
StyleHeading1 == Heading \o <<" ","1">>
StyleHeading2 == Heading \o <<" ","2">>
StyleHeading7 == Heading \o <<" ","7">>
StyleHeadingX == Heading \o <<" ","T","o","p">>

Para(style, text) == [style |-> style, text |-> text]

\* Word documents for convert_docx
DocxParagraphs ==
    { Para(st, tx) : st \in {StyleNormal, StyleHeading1, StyleHeading2, StyleHeading7,
                             StyleHeadingX},
                     tx \in {<<"A">>, <<"B">>} }
DocxDocs ==
    { [paragraphs |-> ps, rels |-> rs] :
        ps \in SeqsUpTo(DocxParagraphs, MaxParas),
        rs \in {<<>>, <<StylesRel>>, <<StylesRel, ImageRel(BytesA)>>, <<ImageRel(BytesB)>>} }

\* workbooks for convert_xlsx
CellValues == {PyNone, PyInt(0), PyInt(12), PyStr(<<"a">>)}
Sheets(title) ==
    { [title |-> title, rows |-> rows] :
        rows \in UNION { [1..n -> [1..m -> CellValues]] : n \in 1..MaxRows, m \in 1..MaxCols } }
Workbooks ==
    { <<sh>> : sh \in Sheets(<<"S">>) }
    \cup { << [title |-> <<"S">>, rows |-> << <<a>> >>],
              [title |-> <<"D">>, rows |-> << <<b>> >>] >> : a, b \in CellValues }

\* parsed HTML pages for convert_html
SrcRemote    == <<"h","t","t","p",":","/","/","h","/","u">>
SrcLocal     == <<"e">>
SrcMissing   == <<"m">>
SrcLocalHttp == <<"h","t","t","p","x">>
Element(tag, text, src) == [tag |-> tag, text |-> text, src |-> src]
HtmlElements ==
    { Element("h1", <<"A">>, <<>>), Element("h2", <<"B">>, <<>>),
      Element("p", <<"x">>, <<>>), Element("p", <<"y">>, <<>>),
      Element("img", <<>>, SrcRemote), Element("img", <<>>, SrcLocal),
      Element("img", <<>>, SrcMissing), Element("img", <<>>, SrcLocalHttp) }
HtmlPages == SeqsUpTo(HtmlElements, MaxElems)
HtmlPath == <<"p",".","h","t","m","l">>

\* documents with up to MaxImgs embedded images, one set per converter, for convert
DocxSamples ==
    { [paragraphs |-> <<Para(StyleHeading1, <<"A">>)>>,
       rels |-> <<StylesRel>> \o [k \in 1..Len(bs) |-> ImageRel(bs[k])]] :
        bs \in SeqsUpTo(Payloads, MaxImgs) }
XlsxSamples == { << [title |-> <<"S">>, rows |-> << <<PyStr(<<"a">>)>> >>] >> }
TextShape == [has_text |-> TRUE, text |-> <<"A">>, shape_type |-> 17, blob |-> <<>>]
PictureShape(blob) == [has_text |-> FALSE, text |-> <<>>, shape_type |-> 13, blob |-> blob]
PptxSamples ==
    { << <<TextShape>> \o [k \in 1..Len(bs) |-> PictureShape(bs[k])] >> :
        bs \in SeqsUpTo({BytesA, BytesD}, MaxImgs) }
PdfSamples ==
    { << [text |-> <<"A">>, images |-> bs] >> : bs \in SeqsUpTo({BytesA, BytesB}, MaxImgs) }
HtmlSamples ==
    { <<Element("p", <<"x">>, <<>>)>> \o [k \in 1..Len(ss) |-> Element("img", <<>>, ss[k])] :
        ss \in SeqsUpTo({SrcRemote, SrcLocal}, MaxImgs) }

\* the documents a routine can parse
SamplesFor(routine) ==
    CASE routine = "convert_docx" -> DocxSamples
      [] routine = "convert_xlsx" -> XlsxSamples
      [] routine = "convert_pptx" -> PptxSamples
      [] routine = "convert_pdf"  -> PdfSamples
      [] routine = "convert_html" -> HtmlSamples

\* paths handed to convert: a stem without a dot, then an extension as written
Stems == { <<"a">>, <<"r","/","b">> }
ExtsWritten ==
    { ExtDocx, <<".","D","O","C","X">>,
      ExtXlsx, ExtPptx,
      ExtPdf,  <<".","P","d","f">>,
      ExtHtml,
      ExtHtm,  <<".","H","T","M">>,
      <<".","t","x","t">>, <<".","D","O","C">>, <<".","h","t","m","l","x">>, <<>> }
ConvertPaths == { st \o ex : st \in Stems, ex \in ExtsWritten }

(***************************************************************************)
(* DocConvertor.convert                                                    *)
(***************************************************************************)
\* a variant of line 225 without .lower()
suffix_as_written(file_path) == path_suffix(file_path)

\* line 225: Path(file_path).suffix.lower()
ext_of(file_path) == lower(path_suffix(file_path))

\* line 236: converters.get(ext), "None" when the key is absent
converters_get(ext) == IF ext \in DOMAIN converters THEN converters[ext] ELSE "None"

\* line 238: f"Unsupported file type: {ext}"
unsupported_message(ext) ==
    <<"U","n","s","u","p","p","o","r","t","e","d"," ","f","i","l","e"," ",
      "t","y","p","e",":"," ">> \o ext

\* the routine's outcome on the document found at file_path
run_routine(routine, file_path, doc) ==
    CASE routine = "convert_docx" -> convert_docx(doc)
      [] routine = "convert_xlsx" -> convert_xlsx(doc)
      [] routine = "convert_pptx" -> convert_pptx(doc)
      [] routine = "convert_pdf"  -> convert_pdf(doc)
      [] routine = "convert_html" -> convert_html(file_path, doc)

\* The record of a finished call: what was called with what, which routines ran,
\* how it ended, the markdown list, the returned text and the files written.
Outcome(call, file_path, doc, invoked, r, msg) ==
    [call |-> call, path |-> file_path, doc |-> doc, invoked |-> invoked,
     kind |-> r.kind, exc |-> r.exc, msg |-> msg, markdown |-> r.markdown,
     text |-> JoinLines(r.markdown), writes |-> r.writes]

NoCall == Outcome("none", <<>>, <<>>, <<>>, Ok(<<>>, <<>>), <<>>)

\* a call of one routine on one document: the files written stay on disk
RoutineCall(call, routine, file_path, doc) ==
    LET r == run_routine(routine, file_path, doc)
    IN  /\ ret' = Outcome(call, file_path, doc, <<routine>>, r, <<>>)
        /\ folder' = apply_writes(folder, r.writes)
        /\ saveLog' = saveLog \cup { r.writes[k] : k \in 1..Len(r.writes) }
        /\ UNCHANGED fvars

\* lines 236-238: no converter for the extension
ConvertUnsupported(file_path) ==
    /\ converters_get(ext_of(file_path)) = "None"
    /\ ret' = Outcome("convert", file_path, <<>>, <<>>, Raised(<<"ValueError">>, <<>>),
                      unsupported_message(ext_of(file_path)))
    /\ UNCHANGED <<folder, saveLog>>
    /\ UNCHANGED fvars

\* line 240: converter(file_path), on the document the routine finds at file_path
ConvertSupported(file_path) ==
    LET converter == converters_get(ext_of(file_path))
    IN  /\ converter /= "None"
        /\ \E doc \in SamplesFor(converter) :
               RoutineCall("convert", converter, file_path, doc)

(***************************************************************************)
(* The calls.                                                              *)
(***************************************************************************)
convert ==
    \E file_path \in ConvertPaths :
        \/ ConvertUnsupported(file_path)
        \/ ConvertSupported(file_path)

\* a routine called directly, on the document the initial state holds
Pending(routine, file_path, doc) ==
    [call |-> routine, path |-> file_path, doc |-> doc, invoked |-> <<>>,
     kind |-> "pending", exc |-> <<>>, msg |-> <<>>, markdown |-> <<>>,
     text |-> <<>>, writes |-> <<>>]

call_convert_docx ==
    /\ ret.kind = "pending" /\ ret.call = "convert_docx"
    /\ RoutineCall("convert_docx", "convert_docx", ret.path, ret.doc)

call_convert_xlsx ==
    /\ ret.kind = "pending" /\ ret.call = "convert_xlsx"
    /\ RoutineCall("convert_xlsx", "convert_xlsx", ret.path, ret.doc)

call_convert_html ==
    /\ ret.kind = "pending" /\ ret.call = "convert_html"
    /\ RoutineCall("convert_html", "convert_html", ret.path, ret.doc)

(***************************************************************************)
(* Initial state and specifications.                                       *)
(***************************************************************************)
InitBut ==
    /\ pc = "idle"
    /\ input = <<>>
    /\ markdown_text = <<>>
    /\ images = <<>>
    /\ captions = <<>>
    /\ idx = 1
    /\ loaderCalls = <<>>
    /\ spans = <<>>
    /\ nrepl = 0
    /\ folder = <<>>
    /\ saveLog = {}

\* a fresh MarkdownFormatter and a fresh DocConvertor, nothing called yet
Init == InitBut /\ ret = NoCall

\* a fresh DocConvertor about to run one routine on one document
InitDocx == InitBut /\ ret \in { Pending("convert_docx", <<"a">> \o ExtDocx, d) : d \in DocxDocs }
InitXlsx == InitBut /\ ret \in { Pending("convert_xlsx", <<"a">> \o ExtXlsx, d) : d \in Workbooks }
InitHtml == InitBut /\ ret \in { Pending("convert_html", HtmlPath, d) : d \in HtmlPages }

NextFormatter == process_markdown_images
SpecFormatter == Init /\ [][NextFormatter]_vars

NextConvertor == convert
SpecConvertor == Init /\ [][NextConvertor]_vars

NextDocx == call_convert_docx
SpecDocx == InitDocx /\ [][NextDocx]_vars

NextXlsx == call_convert_xlsx
SpecXlsx == InitXlsx /\ [][NextXlsx]_vars

NextHtml == call_convert_html
SpecHtml == InitHtml /\ [][NextHtml]_vars

Next == NextFormatter \/ NextConvertor \/ NextDocx \/ NextXlsx \/ NextHtml
Spec == Init /\ [][Next]_vars

(***************************************************************************)
(* Properties of MarkdownFormatter.                                        *)
(***************************************************************************)
\* the occurrences whose file exists, and the batch position of occurrence i
Existing == { i \in 1..Len(images) : exists(images[i].img_path) }
BatchPos(i) == Cardinality({ j \in Existing : j <= i })

\* the text now standing where occurrence i stood
TextAt(i) == SubSeq(markdown_text, spans[i].first, spans[i].last)

\* C1: when process_markdown_images returns, every occurrence whose file exists
\* has been rewritten to ![<md5>](<path> "<caption>") (or ![<md5>](<path>) for an
\* empty caption), with the caption returned for that occurrence's own position
\* in the batch of existing paths.
C1_EveryExistingRewritten ==
    pc = "done" =>
        \A i \in Existing :
            TextAt(i) = new_text_of(images[i].img_path, captions[BatchPos(i)])

\* C4: when process_markdown_images returns, every occurrence whose file does
\* not exist reads exactly as it did in the input.
C4_MissingUntouched ==
    pc = "done" =>
        \A i \in 1..Len(images) :
            ~exists(images[i].img_path) => TextAt(i) = images[i].original

\* C5: during one call the captioning collaborator is invoked exactly once, and
\* its batch holds exactly the paths of the occurrences whose file exists,
\* duplicates kept, in document order; no call before the method is entered.
C5_OneBatchOfExistingPaths ==
    /\ pc = "idle" => loaderCalls = <<>>
    /\ pc \in {"loop", "done"} =>
        /\ Len(loaderCalls) = 1
        /\ Len(loaderCalls[1]) = Cardinality(Existing)
        /\ \A i \in Existing : loaderCalls[1][BatchPos(i)] = images[i].img_path
        /\ \A k \in 1..Len(loaderCalls[1]) : exists(loaderCalls[1][k])

\* C5 witness: a finished call whose batch holds the same path twice while the
\* text also has an occurrence that was left out of the batch
C5_Witness ==
    /\ pc = "done"
    /\ Len(loaderCalls) = 1
    /\ Len(loaderCalls[1]) = 2
    /\ loaderCalls[1][1] = loaderCalls[1][2]
    /\ \E i \in 1..Len(images) : ~exists(images[i].img_path)

\* an iteration of the rewrite loop that reaches line 90
IterationReplaces ==
    /\ pc = "loop"
    /\ idx <= ZipLen
    /\ exists(images[idx].img_path)
    /\ idx' = idx + 1

\* C8 as stated: an iteration replaces only the first remaining occurrence of the
\* current original snippet.
C8_OnlyFirstReplaced ==
    [][IterationReplaces =>
         markdown_text' = ReplaceFirst(markdown_text, images[idx].original,
                              new_text_of(images[idx].img_path, captions[idx]))]_vars

\* What line 90 does instead (C8): an iteration replaces every (non-overlapping) occurrence of the
\* current original snippet: with k occurrences the text grows by k times the
\* difference in length, and the new text stands at each of the k places.
C8_EveryOccurrenceReplaced ==
    [][IterationReplaces =>
         LET original == images[idx].original
             new_text == new_text_of(images[idx].img_path, captions[idx])
             hs == Hits(markdown_text, original, 1)
             d  == Len(new_text) - Len(original)
         IN  /\ Len(markdown_text') = Len(markdown_text) + Len(hs) * d
             /\ \A n \in 1..Len(hs) :
                    SubSeq(markdown_text', hs[n] + (n - 1) * d,
                           hs[n] + (n - 1) * d + Len(new_text) - 1) = new_text]_vars

\* the case of C8: an iteration has just replaced more than one occurrence at once
C8_Witness == pc = "loop" /\ idx > 1 /\ nrepl > 1

(***************************************************************************)
(* Properties of DocConvertor.                                             *)
(***************************************************************************)
\* C2: over all _save_image calls made so far, identical bytes got the same
\* path and bytes with different digests got different paths; the image folder
\* holds at most one file per distinct payload saved, and every file's name is
\* the folder, the hex digest of the file's own content and the extension.
C2_ContentAddressed ==
    /\ \A s1, s2 \in saveLog :
          /\ s1.data = s2.data => s1.path = s2.path
          /\ md5_hexdigest(s1.data) /= md5_hexdigest(s2.data) => s1.path /= s2.path
    /\ Cardinality(DOMAIN folder) <= Cardinality({ sv.data : sv \in saveLog })
    /\ \A b \in { sv.data : sv \in saveLog } :
          Cardinality({ q \in DOMAIN folder : folder[q] = b }) <= 1
    /\ \A q \in DOMAIN folder :
          /\ \E sv \in saveLog : sv.path = q /\ sv.data = folder[q]
          /\ q = image_folder \o <<"/">> \o md5_hexdigest(folder[q]) \o DefaultExtension

\* C2 witness: the same bytes were saved from a Word file and are now saved again
\* from a PDF, next to a payload with another digest and one with the same digest
C2_Witness ==
    /\ ret.call = "convert" /\ ret.invoked = <<"convert_pdf">>
    /\ \E k \in 1..Len(ret.writes) : ret.writes[k].data = BytesB
    /\ \E sv \in saveLog : sv.data = BytesA
    /\ \E sv \in saveLog : sv.data = BytesD
    /\ Cardinality(DOMAIN folder) = 2

\* the routine the dispatch table is documented to give a lower-case extension
ExpectedRoutine(ext) ==
    CASE ext = <<".","d","o","c","x">> -> "convert_docx"
      [] ext = <<".","x","l","s","x">> -> "convert_xlsx"
      [] ext = <<".","p","p","t","x">> -> "convert_pptx"
      [] ext = <<".","p","d","f">>     -> "convert_pdf"
      [] ext = <<".","h","t","m","l">> -> "convert_html"
      [] ext = <<".","h","t","m">>     -> "convert_html"
      [] OTHER -> "None"

\* C3: convert(stem + ext) runs exactly the routine that belongs to the
\* lower-cased ext and returns its result; for any other ext it raises an error
\* whose message ends with the lower-cased ext, runs no routine and writes no file.
C3_Dispatch ==
    ret.call = "convert" =>
        \A st \in Stems, ex \in ExtsWritten :
            ret.path = st \o ex =>
                IF ExpectedRoutine(lower(ex)) /= "None"
                THEN /\ ret.invoked = <<ExpectedRoutine(lower(ex))>>
                     /\ ret.text = JoinLines(run_routine(ExpectedRoutine(lower(ex)),
                                                         ret.path, ret.doc).markdown)
                ELSE /\ ret.kind = "error"
                     /\ ret.invoked = <<>>
                     /\ ret.writes = <<>>
                     /\ Len(ret.msg) > Len(ex)
                     /\ Tail_from(ret.msg, Len(ret.msg) - Len(ex) + 1) = lower(ex)

\* C3 witness: an upper-case .HTM path has been converted by the HTML routine
C3_Witness ==
    /\ ret.call = "convert"
    /\ ret.path = <<"r","/","b",".","H","T","M">>
    /\ ret.invoked = <<"convert_html">>
    /\ ret.kind = "ok"

\* str.split('|')
RECURSIVE SplitPipe(_)
SplitPipe(line) ==
    LET i == find(line, <<"|">>, 1)
    IN  IF i = 0 THEN <<line>>
        ELSE <<SubSeq(line, 1, i - 1)>> \o SplitPipe(SubSeq(line, i + 1, Len(line)))

\* the cells between the outer pipes of a table line
CellsOf(line) ==
    LET parts == SplitPipe(line) IN SubSeq(parts, 2, Len(parts) - 1)

\* how the specification renders a cell: blank as nothing, anything else as its value
RenderCell(v) == IF v.t = "none" THEN <<>> ELSE str_of(v)

\* the 1-based position of sheet k's heading in the markdown list
RECURSIVE SheetStart(_, _)
SheetStart(wb, k) == IF k = 1 THEN 1 ELSE SheetStart(wb, k - 1) + Len(wb[k - 1].rows) + 3

\* C6: every sheet of N rows and M columns is rendered as '## <title>' and a
\* table of N+1 lines (row 1, a separator of '---' cells, rows 2..N), each line
\* of exactly M cells, a blank cell empty and any other cell showing its value.
C6_TableShape ==
    (ret.call = "convert_xlsx" /\ ret.kind /= "pending") =>
        /\ ret.kind = "ok"
        /\ \A k \in 1..Len(ret.doc) :
            LET sheet == ret.doc[k]
                n == Len(sheet.rows)
                m == Len(sheet.rows[1])
                at == SheetStart(ret.doc, k)
                line(r) == ret.markdown[at + (IF r = 1 THEN 1 ELSE r + 1)]
            IN  /\ Len(ret.markdown) >= at + n + 2
                /\ ret.markdown[at] = <<"#","#"," ">> \o sheet.title \o <<"\n">>
                /\ Len(CellsOf(ret.markdown[at + 2])) = m
                /\ \A c \in 1..m : CellsOf(ret.markdown[at + 2])[c] = <<" ","-","-","-"," ">>
                /\ ret.markdown[at + n + 2] = <<"\n">>
                /\ \A r \in 1..n :
                      /\ Len(CellsOf(line(r))) = m
                      /\ \A c \in 1..m :
                            CellsOf(line(r))[c] = <<" ">> \o RenderCell(sheet.rows[r][c]) \o <<" ">>

\* a remote source: an http:// or https:// URL
IsRemoteUrl(src) ==
    \/ startswith(src, <<"h","t","t","p",":","/","/">>)
    \/ startswith(src, <<"h","t","t","p","s",":","/","/">>)

\* what the specification asks of one img: the reference emitted and the save made
ExpectedImgWrites(file_path, img) ==
    IF img.src = <<>> \/ IsRemoteUrl(img.src) THEN <<>>
    ELSE IF exists(path_join(dirname(file_path), img.src))
    THEN << save_image(read_bytes(path_join(dirname(file_path), img.src))) >>
    ELSE <<>>
ExpectedImgEntries(file_path, img) ==
    IF img.src = <<>> THEN <<>>
    ELSE IF IsRemoteUrl(img.src) THEN << image_ref(img.src) >>
    ELSE [k \in 1..Len(ExpectedImgWrites(file_path, img)) |->
             image_ref(ExpectedImgWrites(file_path, img)[k].path)]

\* C7: the image references of convert_html are, img by img: the URL itself for
\* a remote source and nothing saved; the content-addressed path of the saved
\* bytes for a local source whose file exists; nothing for a local source whose
\* file is missing. A source that is no URL is local, whatever its name.
C7_ImagesByKind ==
    (ret.call = "convert_html" /\ ret.kind /= "pending") =>
        LET imgs == find_all(ret.doc, "img")
            ntext == Len(ret.doc) - Len(imgs)
        IN  /\ ret.kind = "ok"
            /\ SubSeq(ret.markdown, ntext + 1, Len(ret.markdown))
                 = Flatten([k \in 1..Len(imgs) |-> ExpectedImgEntries(ret.path, imgs[k])])
            /\ ret.writes
                 = Flatten([k \in 1..Len(imgs) |-> ExpectedImgWrites(ret.path, imgs[k])])
            /\ folder = apply_writes(<<>>, ret.writes)

\* the level of a heading tag, 0 for any other tag
HeadingLevel(tag) ==
    IF \E i \in 1..6 : HeadingTags[i] = tag
    THEN CHOOSE i \in 1..6 : HeadingTags[i] = tag ELSE 0

\* the text blocks of a page in document order, as they are to be emitted
HtmlTextInOrder(soup) ==
    LET blocks == SelectSeq(soup, LAMBDA el : el.tag /= "img")
    IN  [k \in 1..Len(blocks) |->
            IF HeadingLevel(blocks[k].tag) > 0
            THEN Hashes(HeadingLevel(blocks[k].tag)) \o <<" ">> \o blocks[k].text \o <<"\n">>
            ELSE blocks[k].text \o <<"\n">>]

\* ends(s, t): s ends with t
EndsWith(s, t) == Len(s) >= Len(t) /\ SubSeq(s, Len(s) - Len(t) + 1, Len(s)) = t

\* C9: the text blocks of the source appear in the output in source order: the
\* headings and paragraphs of an HTML page as they interleave in the page, the
\* paragraphs of a Word document one after the other.
C9_TextInSourceOrder ==
    /\ (ret.call = "convert_html" /\ ret.kind = "ok") =>
          LET ntext == Len(ret.doc) - Len(find_all(ret.doc, "img"))
          IN  SubSeq(ret.markdown, 1, ntext) = HtmlTextInOrder(ret.doc)
    /\ (ret.call = "convert_docx" /\ ret.kind = "ok") =>
          /\ Len(ret.markdown) >= Len(ret.doc.paragraphs)
          /\ \A i \in 1..Len(ret.doc.paragraphs) :
                EndsWith(ret.markdown[i], ret.doc.paragraphs[i].text \o <<"\n">>)

\* C10: a Word paragraph whose style name starts with 'Heading' becomes k '#', a
\* space and the text, 1 <= k <= 6 (k the digit the name ends in, when it ends in
\* one of 1..6); any other paragraph becomes a plain line; the conversion never
\* fails on a heading style. An HTML h<k> element becomes k '#', a space, the text.
C10_HeadingLevels ==
    /\ (ret.call = "convert_docx" /\ ret.kind /= "pending") =>
          /\ ret.kind = "ok"
          /\ \A i \in 1..Len(ret.doc.paragraphs) :
                LET para == ret.doc.paragraphs[i]
                    last == para.style[Len(para.style)]
                IN  IF startswith(para.style, Heading)
                    THEN \E k \in 1..6 :
                            /\ ret.markdown[i] = Hashes(k) \o <<" ">> \o para.text \o <<"\n">>
                            /\ (IsDigit(last) /\ int_of(last) \in 1..6) => k = int_of(last)
                    ELSE ret.markdown[i] = para.text \o <<"\n">>
    /\ (ret.call = "convert_html" /\ ret.kind = "ok") =>
          \A j \in 1..Len(ret.doc) :
              HeadingLevel(ret.doc[j].tag) > 0 =>
                  \E i \in 1..Len(ret.markdown) :
                      ret.markdown[i] = Hashes(HeadingLevel(ret.doc[j].tag)) \o <<" ">>
                                            \o ret.doc[j].text \o <<"\n">>

====
